---- MODULE Spec2Model ----
(***************************************************************************)
(* BreakPointManager (src/breakPointManager.js): the module keeps an       *)
(* array of breakpoint strings and rewrites the class attribute of the     *)
(* html element from the viewport width, once when the file is loaded,     *)
(* once per addBreakPoints call and once per resize notification.          *)
(*                                                                         *)
(* A JavaScript string is a sequence of one-character strings, so that     *)
(* indexOf, replace and the whitespace regular expression work on          *)
(* substrings exactly as the code does.                                    *)
(***************************************************************************)
EXTENDS Integers, Sequences, FiniteSets

VARIABLES
    breakPoints,    \* the array breakPoints of the closure (line 46)
    className,      \* htmlEl.className, the class attribute of the root element
    clientWidth,    \* documentElement.clientWidth, the viewport width of the host
    windowWidth,    \* the width read by the last updateClasses (line 98)
    resizePending,  \* the host has a resize notification to deliver
    listeners,      \* number of resize listeners installed on window
    last            \* the handler that ran last, with its argument and result

vars == <<breakPoints, className, clientWidth, windowWidth, resizePending, listeners, last>>

(***************************************************************************)
(* Bounds of the model.                                                    *)
(***************************************************************************)
\* the longest breakPoints array explored
MaxBreakPoints == 2
\* the longest class attribute explored (leftovers of the substring removal
\* can make it grow without limit)
MaxClassLen == 14

(***************************************************************************)
(* Strings.                                                                *)
(***************************************************************************)
\* the characters the regular expression \s matches, of those in the model
WhiteSpace == {" ", "\t", "\n"}

Digits == {"0", "1", "2", "3", "4", "5", "6", "7", "8", "9"}

Min(S) == CHOOSE x \in S : \A y \in S : x <= y

\* does sub occur in s at the 0-based position i
OccursAt(s, sub, i) ==
    /\ i >= 0
    /\ i + Len(sub) <= Len(s)
    /\ SubSeq(s, i + 1, i + Len(sub)) = sub

\* String.prototype.indexOf: the 0-based position of the first occurrence, or -1
indexOf(s, sub) ==
    LET hits == {i \in 0..(Len(s) - Len(sub)) : OccursAt(s, sub, i)}
    IN  IF hits = {} THEN -1 ELSE Min(hits)

\* String.prototype.replace(pattern, '') with a string pattern: the FIRST
\* occurrence alone is removed
replace(s, pattern) ==
    LET i == indexOf(s, pattern)
    IN  IF i = -1 THEN s
        ELSE SubSeq(s, 1, i) \o SubSeq(s, i + Len(pattern) + 1, Len(s))

\* String.prototype.replace(/\s+/, ' '), without the g flag: the first run of
\* whitespace alone becomes one space
RECURSIVE replaceFirstWhitespace(_)
replaceFirstWhitespace(s) ==
    IF s = <<>> THEN <<>>
    ELSE IF Head(s) \in WhiteSpace
         THEN IF Len(s) > 1 /\ s[2] \in WhiteSpace
              THEN replaceFirstWhitespace(Tail(s))
              ELSE <<" ">> \o Tail(s)
         ELSE <<Head(s)>> \o replaceFirstWhitespace(Tail(s))

\* String.prototype.replace(/\s+/g, ' '): every maximal run of whitespace
\* becomes one space
RECURSIVE replaceWhitespace(_)
replaceWhitespace(s) ==
    IF s = <<>> THEN <<>>
    ELSE IF Head(s) \in WhiteSpace
         THEN IF Len(s) > 1 /\ s[2] \in WhiteSpace
              THEN replaceWhitespace(Tail(s))
              ELSE <<" ">> \o replaceWhitespace(Tail(s))
         ELSE <<Head(s)>> \o replaceWhitespace(Tail(s))

(***************************************************************************)
(* Numbers.  A JavaScript number is NaN, an infinity or a finite value     *)
(* num/den (den a power of ten), which makes the comparison with an        *)
(* integer width exact for decimal literals.                               *)
(***************************************************************************)
NaN == [k |-> "nan", num |-> 0, den |-> 1]
Infinity == [k |-> "inf", num |-> 1, den |-> 1]
Finite(n, d) == [k |-> "fin", num |-> n, den |-> d]
Int2Num(n) == Finite(n, 1)

isNaN(x) == x.k = "nan"

DigitVal(c) ==
    CASE c = "0" -> 0 [] c = "1" -> 1 [] c = "2" -> 2 [] c = "3" -> 3 [] c = "4" -> 4
      [] c = "5" -> 5 [] c = "6" -> 6 [] c = "7" -> 7 [] c = "8" -> 8 [] c = "9" -> 9

DigitChar(d) ==
    CASE d = 0 -> "0" [] d = 1 -> "1" [] d = 2 -> "2" [] d = 3 -> "3" [] d = 4 -> "4"
      [] d = 5 -> "5" [] d = 6 -> "6" [] d = 7 -> "7" [] d = 8 -> "8" [] d = 9 -> "9"

RECURSIVE Pow10(_)
Pow10(n) == IF n = 0 THEN 1 ELSE 10 * Pow10(n - 1)

\* the value of a sequence of decimal digits
RECURSIVE DigitsVal(_)
DigitsVal(s) ==
    IF s = <<>> THEN 0
    ELSE 10 * DigitsVal(SubSeq(s, 1, Len(s) - 1)) + DigitVal(s[Len(s)])

AllDigits(s) == \A i \in 1..Len(s) : s[i] \in Digits

\* StrWhiteSpace is stripped from both ends before a string is read as a number
RECURSIVE TrimLeft(_)
TrimLeft(s) == IF s # <<>> /\ Head(s) \in WhiteSpace THEN TrimLeft(Tail(s)) ELSE s

RECURSIVE TrimRight(_)
TrimRight(s) ==
    IF s # <<>> /\ s[Len(s)] \in WhiteSpace THEN TrimRight(SubSeq(s, 1, Len(s) - 1)) ELSE s

\* StrUnsignedDecimalLiteral: Infinity, digits, digits. , digits.digits , .digits
\* (the exponent and the 0x, 0o, 0b forms use letters outside the inputs explored)
UnsignedToNumber(s) ==
    LET dots == {i \in 1..Len(s) : s[i] = "."}
    IN  IF s = <<"I", "n", "f", "i", "n", "i", "t", "y">> THEN Infinity
        ELSE IF s = <<>> THEN NaN
        ELSE IF dots = {} THEN (IF AllDigits(s) THEN Finite(DigitsVal(s), 1) ELSE NaN)
        ELSE IF Cardinality(dots) > 1 THEN NaN
        ELSE LET d == CHOOSE i \in dots : TRUE
                 ip == SubSeq(s, 1, d - 1)
                 fp == SubSeq(s, d + 1, Len(s))
             IN  IF Len(s) = 1 \/ ~AllDigits(ip) \/ ~AllDigits(fp) THEN NaN
                 ELSE Finite(DigitsVal(ip \o fp), Pow10(Len(fp)))

Negate(x) == [x EXCEPT !.num = -x.num]

\* StringToNumber (the unary + of line 55 and the comparisons of lines 110, 114
\* apply it to a string): the empty and the all-whitespace string are 0
StringToNumber(str) ==
    LET s == TrimRight(TrimLeft(str))
    IN  IF s = <<>> THEN Finite(0, 1)
        ELSE IF Head(s) = "-"
             THEN LET u == UnsignedToNumber(Tail(s)) IN IF isNaN(u) THEN NaN ELSE Negate(u)
        ELSE IF Head(s) = "+" THEN UnsignedToNumber(Tail(s))
        ELSE UnsignedToNumber(s)

\* the decimal digits of a natural number
RECURSIVE NatToString(_)
NatToString(n) ==
    IF n < 10 THEN <<DigitChar(n)>> ELSE NatToString(n \div 10) \o <<DigitChar(n % 10)>>

\* Number::toString for the numbers a caller passes here: NaN, the infinities
\* and the integers, however they were written (5.0 is the integer 5)
NumberToString(x) ==
    IF x.k = "nan" THEN <<"N", "a", "N">>
    ELSE IF x.k = "inf"
         THEN (IF x.num < 0 THEN <<"-">> ELSE <<>>) \o <<"I", "n", "f", "i", "n", "i", "t", "y">>
    ELSE IF x.num < 0 THEN <<"-">> \o NatToString((-x.num) \div x.den)
    ELSE NatToString(x.num \div x.den)

\* w > x and w < x for a number w that is an integer: false when x is NaN
GreaterThan(w, x) ==
    CASE x.k = "nan" -> FALSE
      [] x.k = "inf" -> x.num < 0
      [] OTHER -> w * x.den > x.num

LessThan(w, x) ==
    CASE x.k = "nan" -> FALSE
      [] x.k = "inf" -> x.num > 0
      [] OTHER -> w * x.den < x.num

(***************************************************************************)
(* Values a caller can pass: strings, numbers and undefined, and arrays    *)
(* of them.                                                                *)
(***************************************************************************)
Str(s) == [t |-> "string", s |-> s, n |-> NaN]
Num(x) == [t |-> "number", s |-> <<>>, n |-> x]
Undefined == [t |-> "undefined", s |-> <<>>, n |-> NaN]

\* ToNumber, the unary + of line 55
ToNumber(v) ==
    CASE v.t = "string" -> StringToNumber(v.s)
      [] v.t = "number" -> v.n
      [] OTHER -> NaN

\* ToString, the ''+bp of lines 56 and 89
ToStr(v) ==
    CASE v.t = "string" -> v.s
      [] v.t = "number" -> NumberToString(v.n)
      [] OTHER -> <<"u", "n", "d", "e", "f", "i", "n", "e", "d">>

\* an argument of addBreakPoints: one value, or an Array of values
One(v) == [isArray |-> FALSE, items |-> <<v>>]
Arr(a) == [isArray |-> TRUE, items |-> a]

(***************************************************************************)
(* The closure of src/breakPointManager.js.                                *)
(***************************************************************************)
PREFIXES == [LESS_THAN |-> <<"l", "t">>, GREATER_THAN |-> <<"g", "t">>, EQUAL |-> <<"e">>]

\* hasBreakPoint with breakPoints.indexOf(bp): the strict equality of indexOf
\* finds a string only
hasBreakPointWithoutCoercion(bps, bp) ==
    bp.t = "string" /\ \E i \in 1..Len(bps) : bps[i] = bp.s

\* hasBreakPoint: breakPoints.indexOf(''+bp) !== -1
\* hasBreakPoint deciding on the numeric value of the entries
hasBreakPointNumeric(bps, bp) ==
    \E i \in 1..Len(bps) :
        LET x == StringToNumber(bps[i])
            y == ToNumber(bp)
        IN  x.k = y.k /\ x.num * y.den = y.num * x.den

hasBreakPoint(bps, bp) == \E i \in 1..Len(bps) : bps[i] = ToStr(bp)

\* addUniqueBreakPoint with the negation of hasBreakPoint dropped
addUniqueBreakPointIfPresent(bps, bp) ==
    IF ~isNaN(ToNumber(bp)) /\ hasBreakPoint(bps, bp)
    THEN Append(bps, ToStr(bp))
    ELSE bps

\* addUniqueBreakPoint without the isNaN test
addUniqueBreakPointUnvalidated(bps, bp) ==
    IF ~hasBreakPoint(bps, bp) THEN Append(bps, ToStr(bp)) ELSE bps

\* addUniqueBreakPoint without the hasBreakPoint test
addUniqueBreakPointUnchecked(bps, bp) ==
    IF ~isNaN(ToNumber(bp)) THEN Append(bps, ToStr(bp)) ELSE bps

\* addUniqueBreakPoint: the array after the call
\* addUniqueBreakPoint putting the new entry in front of the array
addUniqueBreakPointUnshift(bps, bp) ==
    IF ~isNaN(ToNumber(bp)) /\ ~hasBreakPoint(bps, bp) THEN <<ToStr(bp)>> \o bps ELSE bps

addUniqueBreakPoint(bps, bp) ==
    IF ~isNaN(ToNumber(bp)) /\ ~hasBreakPoint(bps, bp)
    THEN Append(bps, ToStr(bp))
    ELSE bps

\* the loop of lines 75-77 over the first n elements of the array
RECURSIVE addEach(_, _, _)
addEach(bps, items, n) ==
    IF n = 0 THEN bps
    ELSE addUniqueBreakPoint(addEach(bps, items, n - 1), items[n])

\* the breakPoints array that lines 72-78 of addBreakPoints leave
addedBreakPoints(bps, bp) ==
    IF ~bp.isArray /\ bp.items[1].t \in {"string", "number"}
    THEN addUniqueBreakPoint(bps, bp.items[1])
    ELSE IF bp.isArray THEN addEach(bps, bp.items, Len(bp.items))
    ELSE bps

\* the code unit of a character, for the characters a breakpoint string is made of
CharCode(c) == IF c \in Digits THEN 48 + DigitVal(c) ELSE IF c = "I" THEN 73 ELSE 100

\* a < b in the order of the code units, as < and > compare two strings
RECURSIVE StringLess(_, _)
StringLess(a, b) ==
    IF b = <<>> THEN FALSE
    ELSE IF a = <<>> THEN TRUE
    ELSE IF Head(a) # Head(b) THEN CharCode(Head(a)) < CharCode(Head(b))
    ELSE StringLess(Tail(a), Tail(b))

\* the classification with the width taken as a string, so that > and < compare
\* two strings in the order of their code units
activePrefixLexicographic(w, bp) ==
    IF StringLess(bp, NatToString(w)) THEN PREFIXES.GREATER_THAN
    ELSE IF StringLess(NatToString(w), bp) THEN PREFIXES.LESS_THAN
    ELSE PREFIXES.EQUAL

\* lines 110-122: the prefix of the class to add for breakpoint bp at width w
activePrefix(w, bp) ==
    IF GreaterThan(w, StringToNumber(bp)) THEN PREFIXES.GREATER_THAN
    ELSE IF LessThan(w, StringToNumber(bp)) THEN PREFIXES.LESS_THAN
    ELSE PREFIXES.EQUAL

\* the removal list without the EQUAL prefix in the two branches that push it
inactivePrefixesWithoutEqual(w, bp) ==
    IF GreaterThan(w, StringToNumber(bp)) THEN <<PREFIXES.LESS_THAN, PREFIXES.LESS_THAN>>
    ELSE IF LessThan(w, StringToNumber(bp)) THEN <<PREFIXES.GREATER_THAN, PREFIXES.GREATER_THAN>>
    ELSE <<PREFIXES.LESS_THAN, PREFIXES.GREATER_THAN>>

\* lines 110-122: the two prefixes of the classes to remove, in push order
inactivePrefixes(w, bp) ==
    IF GreaterThan(w, StringToNumber(bp)) THEN <<PREFIXES.LESS_THAN, PREFIXES.EQUAL>>
    ELSE IF LessThan(w, StringToNumber(bp)) THEN <<PREFIXES.GREATER_THAN, PREFIXES.EQUAL>>
    ELSE <<PREFIXES.LESS_THAN, PREFIXES.GREATER_THAN>>

\* the array classesToAdd after the loop of lines 108-123
classesToAdd(bps, w) == [i \in 1..Len(bps) |-> activePrefix(w, bps[i]) \o bps[i]]

\* the array classesToRemove after the loop of lines 108-123
classesToRemove(bps, w) ==
    [j \in 1..(2 * Len(bps)) |->
        inactivePrefixes(w, bps[(j + 1) \div 2])[2 - (j % 2)] \o bps[(j + 1) \div 2]]

\* lines 126-128: currentClasses after the first n removals
RECURSIVE removeClasses(_, _, _)
removeClasses(cur, rem, n) ==
    IF n = 0 THEN cur ELSE replace(removeClasses(cur, rem, n - 1), rem[n])

\* lines 130-134: currentClasses after the first n additions
RECURSIVE addClasses(_, _, _)
addClasses(cur, add, n) ==
    IF n = 0 THEN cur
    ELSE LET c == addClasses(cur, add, n - 1)
         IN  IF indexOf(c, add[n]) = -1 THEN c \o <<" ">> \o add[n] ELSE c

\* updateClasses: the className it assigns, from the className it read, the
\* breakPoints array and the clientWidth it read
updateClasses(cur, bps, w) ==
    LET rem == classesToRemove(bps, w)
        add == classesToAdd(bps, w)
    IN  replaceWhitespace(addClasses(removeClasses(cur, rem, Len(rem)), add, Len(add)))

(***************************************************************************)
(* The host page and the callers.                                          *)
(***************************************************************************)
\* viewport widths of the host
Widths == {0, 5, 20}

\* class attributes the page gives the html element before the script runs
InitialClassNames == {<<>>, <<"a", "l", "t", "5", "\t", " ", "b">>}

\* values the callers pass
S1 == <<"1">>
S11 == <<"1", "1">>
S5 == <<"5">>
Sx == <<"x">>
SInfinity == <<"I", "n", "f", "i", "n", "i", "t", "y">>

Values == {Str(S1), Str(S11), Str(S5), Str(Sx), Str(SInfinity), Num(Int2Num(5)), Undefined}

\* values the callers ask hasBreakPoint about
Queries == {Str(S5), Num(Int2Num(5)), Str(S11)}

Arguments ==
    {One(v) : v \in Values}
        \cup {Arr(<<Str(S11), Str(S1)>>), Arr(<<Str(Sx), Str(S5), Num(Int2Num(5))>>)}

NoArgument == One(Undefined)

\* a handler that returned ret, and a handler that ended by throwing error
Call(op, arg, ret) == [op |-> op, arg |-> arg, ret |-> ret, thrown |-> "none"]
Throw(op, arg, error) == [op |-> op, arg |-> arg, ret |-> FALSE, thrown |-> error]

Init ==
    /\ breakPoints = <<>>
    /\ className \in InitialClassNames
    /\ clientWidth \in Widths
    /\ windowWidth = 0
    /\ resizePending = FALSE
    /\ listeners = 0
    /\ last = Call("none", NoArgument, FALSE)

Loaded == last.op # "none"

\* the statements of updateClasses on the state, for the breakPoints array bps
DoUpdateClasses(bps) ==
    /\ className' = updateClasses(className, bps, clientWidth)
    /\ windowWidth' = clientWidth

\* the script is loaded, with a beginResizeListener that installs the listener
\* and leaves the first updateClasses to the first resize notification
LoadWithoutUpdate ==
    /\ ~Loaded
    /\ breakPoints' = <<>>
    /\ listeners' = listeners + 1
    /\ last' = Call("load", NoArgument, FALSE)
    /\ UNCHANGED <<className, windowWidth, clientWidth, resizePending>>

\* the script is loaded: the closure is built with an empty breakPoints array and
\* beginResizeListener runs updateClasses and installs the listener
Load ==
    /\ ~Loaded
    /\ breakPoints' = <<>>
    /\ DoUpdateClasses(<<>>)
    /\ listeners' = listeners + 1
    /\ last' = Call("load", NoArgument, FALSE)
    /\ UNCHANGED <<clientWidth, resizePending>>

\* window.breakPointManager.addBreakPoints(bp)
addBreakPoints(bp) ==
    /\ Loaded
    /\ breakPoints' = addedBreakPoints(breakPoints, bp)
    /\ DoUpdateClasses(addedBreakPoints(breakPoints, bp))
    /\ last' = Call("addBreakPoints", bp, FALSE)
    /\ UNCHANGED <<clientWidth, resizePending, listeners>>

\* window.breakPointManager.hasBreakPoint(bp)
HasBreakPointCall(v) ==
    /\ Loaded
    /\ last' = Call("hasBreakPoint", One(v), hasBreakPoint(breakPoints, v))
    /\ UNCHANGED <<breakPoints, className, clientWidth, windowWidth, resizePending, listeners>>

\* window.breakPointManager.updateClasses()
UpdateClassesCall ==
    /\ Loaded
    /\ DoUpdateClasses(breakPoints)
    /\ last' = Call("updateClasses", NoArgument, FALSE)
    /\ UNCHANGED <<breakPoints, clientWidth, resizePending, listeners>>

\* the user resizes the window: the host changes the width and has one resize
\* notification to deliver (resizes before the delivery share it)
ViewportResize(w) ==
    /\ w # clientWidth
    /\ clientWidth' = w
    /\ resizePending' = TRUE
    /\ UNCHANGED <<breakPoints, className, windowWidth, listeners, last>>

\* the host delivers a resize notification to the listeners installed on window
ResizeEvent ==
    /\ resizePending
    /\ resizePending' = FALSE
    /\ IF listeners > 0
       THEN /\ DoUpdateClasses(breakPoints)
            /\ last' = Call("resize", NoArgument, FALSE)
       ELSE UNCHANGED <<className, windowWidth, last>>
    /\ UNCHANGED <<breakPoints, clientWidth, listeners>>

\* the step stays within the bounds of the model
WithinBounds ==
    /\ Len(breakPoints') <= MaxBreakPoints
    /\ Len(className') <= MaxClassLen

\* the handlers, explored within the bounds
BoundedLoad == Load /\ WithinBounds
BoundedAddBreakPoints(bp) == addBreakPoints(bp) /\ WithinBounds
BoundedUpdateClassesCall == UpdateClassesCall /\ WithinBounds
BoundedResizeEvent == ResizeEvent /\ WithinBounds

Next ==
    \/ BoundedLoad
    \/ \E bp \in Arguments : BoundedAddBreakPoints(bp)
    \/ \E v \in Queries : HasBreakPointCall(v)
    \/ BoundedUpdateClassesCall
    \/ \E w \in Widths : ViewportResize(w)
    \/ BoundedResizeEvent

Spec == Init /\ [][Next]_vars

(***************************************************************************)
(* The class attribute as the browser reads it: whitespace-delimited       *)
(* tokens.                                                                 *)
(***************************************************************************)
\* the length of the run of non-whitespace characters that s starts with
RECURSIVE TokenLen(_)
TokenLen(s) == IF s = <<>> \/ Head(s) \in WhiteSpace THEN 0 ELSE 1 + TokenLen(Tail(s))

\* the tokens of a class attribute, in order
RECURSIVE TokenSeq(_)
TokenSeq(s) ==
    LET r == TrimLeft(s)
    IN  IF r = <<>> THEN <<>>
        ELSE <<SubSeq(r, 1, TokenLen(r))>> \o TokenSeq(SubSeq(r, TokenLen(r) + 1, Len(r)))

Range(f) == {f[i] : i \in DOMAIN f}

Tokens(s) == Range(TokenSeq(s))

PrefixSet == {PREFIXES.LESS_THAN, PREFIXES.GREATER_THAN, PREFIXES.EQUAL}

\* the three relation tokens of breakpoint b, and those present in a class attribute
RelationTokens(b) == {p \o b : p \in PrefixSet}
PresentRelationTokens(s, b) == RelationTokens(b) \cap Tokens(s)

\* C1: after the script is loaded, whatever calls and resize notifications
\* follow, every breakpoint of the set has exactly one of its three tokens lt<b>,
\* e<b>, gt<b> among the whitespace-delimited tokens of the class attribute.
C1_ExactlyOneRelationToken ==
    Loaded => \A i \in 1..Len(breakPoints) :
                  Cardinality(PresentRelationTokens(className, breakPoints[i])) = 1

\* the relation of an integer width to an integer breakpoint value
RelationOf(w, n) ==
    IF w > n THEN PREFIXES.GREATER_THAN
    ELSE IF w < n THEN PREFIXES.LESS_THAN
    ELSE PREFIXES.EQUAL

\* the token the numeric comparison calls for, for the breakpoint strings explored:
\* "1", "11" and "5" are the integers 1, 11 and 5, and every width is below Infinity
ExpectedToken(w, b) ==
    CASE b = S1 -> RelationOf(w, 1) \o b
      [] b = S11 -> RelationOf(w, 11) \o b
      [] b = S5 -> RelationOf(w, 5) \o b
      [] b = SInfinity -> PREFIXES.LESS_THAN \o b

\* C2: for every breakpoint b of the set and the width w that the last
\* updateClasses read, the token updateClasses derives for b is gt<b> when w is
\* numerically greater than b, lt<b> when it is less and e<b> when it is equal
\* (numeric, not lexicographic: width 5 and "11" give lt11); that token occurs in
\* the class attribute, and no other relation token of b is a token of it.
C2_NumericRelation ==
    Loaded => \A i \in 1..Len(breakPoints) :
                  LET b == breakPoints[i]
                      want == ExpectedToken(windowWidth, b)
                  IN  /\ classesToAdd(breakPoints, windowWidth)[i] = want
                      /\ indexOf(className, want) # -1
                      /\ PresentRelationTokens(className, b) \subseteq {want}

\* width 5 is read with "11" registered and lt11 is a token of the class attribute
C2_Witness ==
    /\ Loaded
    /\ windowWidth = 5
    /\ S11 \in Range(breakPoints)
    /\ (PREFIXES.LESS_THAN \o S11) \in Tokens(className)

(***************************************************************************)
(* The example of the file header and of the README: one call              *)
(* addBreakPoints(['768','1024','1100']) and a window 500, 1024 or 1080    *)
(* pixels wide.                                                            *)
(***************************************************************************)
S768 == <<"7", "6", "8">>
S1024 == <<"1", "0", "2", "4">>
S1100 == <<"1", "1", "0", "0">>

ReadmeArgument == Arr(<<Str(S768), Str(S1024), Str(S1100)>>)

ReadmeWidths == {500, 1024, 1080}

ReadmeInit ==
    /\ breakPoints = <<>>
    /\ className \in InitialClassNames
    /\ clientWidth \in ReadmeWidths
    /\ windowWidth = 0
    /\ resizePending = FALSE
    /\ listeners = 0
    /\ last = Call("none", NoArgument, FALSE)

ReadmeNext ==
    \/ Load
    \/ addBreakPoints(ReadmeArgument)
    \/ UpdateClassesCall
    \/ \E w \in ReadmeWidths : ViewportResize(w)
    \/ ResizeEvent

ReadmeSpec == ReadmeInit /\ [][ReadmeNext]_vars

\* the relation tokens of the registered breakpoints that are tokens of the class
\* attribute
AllPresentRelationTokens ==
    UNION {PresentRelationTokens(className, breakPoints[i]) : i \in 1..Len(breakPoints)}

\* the relation tokens the README shows for each of its three widths
ReadmeTokens(w) ==
    CASE w = 500 -> {<<"l", "t", "7", "6", "8">>, <<"l", "t", "1", "0", "2", "4">>, <<"l", "t", "1", "1", "0", "0">>}
      [] w = 1024 -> {<<"g", "t", "7", "6", "8">>, <<"e", "1", "0", "2", "4">>, <<"l", "t", "1", "1", "0", "0">>}
      [] w = 1080 -> {<<"g", "t", "7", "6", "8">>, <<"g", "t", "1", "0", "2", "4">>, <<"l", "t", "1", "1", "0", "0">>}

\* C3: once 768, 1024 and 1100 are registered by one addBreakPoints call, the
\* relation tokens in the class attribute are {lt768, lt1024, lt1100} whenever
\* the width read is 500, {gt768, e1024, lt1100} whenever it is 1024 and
\* {gt768, gt1024, lt1100} whenever it is 1080, in whatever order the resize
\* notifications pass through these widths.
C3_ReadmeExample ==
    (Loaded /\ breakPoints = <<S768, S1024, S1100>>)
        => AllPresentRelationTokens = ReadmeTokens(windowWidth)

\* the window came to 1024 pixels by a resize notification with the three
\* breakpoints registered, and e1024 is a token of the class attribute
C3_Witness ==
    /\ breakPoints = <<S768, S1024, S1100>>
    /\ last.op = "resize"
    /\ windowWidth = 1024
    /\ <<"e", "1", "0", "2", "4">> \in Tokens(className)

\* the tokens of a class attribute that are no relation token of a breakpoint of bps
UnrelatedTokens(s, bps) ==
    Tokens(s) \ UNION {RelationTokens(bps[i]) : i \in 1..Len(bps)}

\* C4: every run of updateClasses (at load, in addBreakPoints, on a resize
\* notification or called directly) leaves the set of tokens that are no relation
\* token of a registered breakpoint as it found it: none is removed or altered
\* and none appears.
C4_UnrelatedTokensPreserved ==
    [][UnrelatedTokens(className', breakPoints') = UnrelatedTokens(className, breakPoints')]_vars

\* C5: the class attribute, which starts without a duplicate token, never holds
\* the same whitespace-delimited token twice.
C5_NoDuplicateTokens ==
    \A i, j \in 1..Len(TokenSeq(className)) :
        i # j => TokenSeq(className)[i] # TokenSeq(className)[j]

(***************************************************************************)
(* addBreakPoints and hasBreakPoint.                                       *)
(***************************************************************************)
\* the values explored that are a number, or a string that reads as a number
NumericValues == {Str(S1), Str(S11), Str(S5), Str(SInfinity), Num(Int2Num(5))}

\* C6: when addBreakPoints(v) has returned for a number v or a string v that
\* reads as a number, hasBreakPoint(v) is true, whatever the set held before.
C6_AddedThenHas ==
    (last.op = "addBreakPoints" /\ ~last.arg.isArray /\ last.arg.items[1] \in NumericValues)
        => hasBreakPoint(breakPoints, last.arg.items[1])

\* addBreakPoints(5), with the number 5, has returned and "5" is in the set
C6_Witness ==
    /\ last = Call("addBreakPoints", One(Num(Int2Num(5))), FALSE)
    /\ S5 \in Range(breakPoints)

\* a step that is one call of addBreakPoints, with argument last'.arg
AddStep == last'.op = "addBreakPoints" /\ clientWidth' = clientWidth

\* the strings the step appends to the breakPoints array
NewEntries == Range(breakPoints') \ Range(breakPoints)

\* the values of an argument, one or the elements of the array
ItemsOf(arg) == Range(arg.items)

\* C7 as stated: a call of addBreakPoints appends an entry only for the values
\* that are coercible to a finite number, and every such value of an array is in
\* the set when it returns.
C7_NonFiniteIgnored ==
    [][AddStep =>
          /\ NewEntries \subseteq
                 {ToStr(v) : v \in {x \in ItemsOf(last'.arg) : ToNumber(x).k = "fin"}}
          /\ last'.arg.isArray =>
                 \A v \in ItemsOf(last'.arg) :
                     ToNumber(v).k = "fin" => ToStr(v) \in Range(breakPoints')]_vars

\* C7, amended: a call of addBreakPoints appends an entry only for the values
\* whose coercion to a number is not NaN (Infinity is appended), and every such
\* value of an array is in the set when it returns.
C7_NotANumberIgnored ==
    [][AddStep =>
          /\ NewEntries \subseteq
                 {ToStr(v) : v \in {x \in ItemsOf(last'.arg) : ~isNaN(ToNumber(x))}}
          /\ last'.arg.isArray =>
                 \A v \in ItemsOf(last'.arg) :
                     ~isNaN(ToNumber(v)) => ToStr(v) \in Range(breakPoints')]_vars

\* addBreakPoints(['x', '5', 5]) has returned: "x" is not in the set and "5" is
C7_Witness ==
    /\ last = Call("addBreakPoints", Arr(<<Str(Sx), Str(S5), Num(Int2Num(5))>>), FALSE)
    /\ Sx \notin Range(breakPoints)
    /\ S5 \in Range(breakPoints)

\* C8: no two entries of the breakPoints array are the same string.
C8_UniqueBreakPoints ==
    \A i, j \in 1..Len(breakPoints) : i # j => breakPoints[i] # breakPoints[j]

\* addBreakPoints(['x', '5', 5]), which repeats 5 as a string and as a number,
\* has returned after an earlier call registered a breakpoint, and the set holds
\* "5" once
C8_Witness ==
    /\ last = Call("addBreakPoints", Arr(<<Str(Sx), Str(S5), Num(Int2Num(5))>>), FALSE)
    /\ Len(breakPoints) = 2
    /\ Cardinality({i \in 1..Len(breakPoints) : breakPoints[i] = S5}) = 1

\* C9: every call of addBreakPoints, also one that adds nothing, runs one
\* updateClasses on the updated set before it returns, so that on return the
\* relation token of every breakpoint the call added is a token of the class
\* attribute.
C9_AddReconciles ==
    [][AddStep =>
          /\ className' = updateClasses(className, breakPoints', clientWidth)
          /\ \A b \in NewEntries : ExpectedToken(clientWidth, b) \in Tokens(className')]_vars

CanonicalString(v) ==
    CASE v = Str(S5) -> S5
      [] v = Num(Int2Num(5)) -> S5
      [] v = Str(S11) -> S11

\* C11: hasBreakPoint(value) returns true if and only if the canonical string of
\* value is an element of the breakpoint set of the state it is called in.
C11_HasIffMember ==
    last.op = "hasBreakPoint"
        => (last.ret <=> CanonicalString(last.arg.items[1]) \in Range(breakPoints))

\* hasBreakPoint(5), with the number 5, has returned true
C11_Witness == last = Call("hasBreakPoint", One(Num(Int2Num(5))), TRUE)

(***************************************************************************)
(* A host page whose html element already carries classes of its own, with *)
(* tabs, newlines and runs of spaces, and with a class named like a token  *)
(* of breakpoint 5 written twice.                                          *)
(***************************************************************************)
HostClassNames ==
    {<<"g", "t", "5", "\n", "\t", "g", "t", "5">>, <<"\t", "x", " ", " ", "y", "\n">>}

HostInit ==
    /\ breakPoints = <<>>
    /\ className \in HostClassNames
    /\ clientWidth \in Widths
    /\ windowWidth = 0
    /\ resizePending = FALSE
    /\ listeners = 0
    /\ last = Call("none", NoArgument, FALSE)

HostSpec == HostInit /\ [][Next]_vars

\* C12: after every updateClasses the class attribute has no whitespace
\* character other than the space and no two whitespace characters in a row,
\* whatever tabs, newlines and runs of spaces the attribute had at first.
C12_SingleSpaced ==
    Loaded => \A i \in 1..Len(className) :
                  className[i] \in WhiteSpace =>
                      /\ className[i] = " "
                      /\ i < Len(className) => className[i + 1] \notin WhiteSpace

\* the script was loaded on a page whose class attribute was a tab, x, two
\* spaces, y and a newline: it is now " x y "
C12_Witness ==
    /\ last.op = "load"
    /\ className = <<" ", "x", " ", "y", " ">>

(***************************************************************************)
(* A document without an html element: it never had one, or a script       *)
(* removed it.  document.getElementsByTagName('html')[0] is then undefined *)
(* and reading its className (line 100) throws a TypeError (line 98 throws *)
(* it already when the document has no root element at all), before       *)
(* anything is written.                                                    *)
(***************************************************************************)
\* the className of an element that is not there
NoElement == <<"no html element">>

HtmlFound == className # NoElement

DetachedInit ==
    /\ breakPoints = <<>>
    /\ className \in {<<>>, NoElement}
    /\ clientWidth \in Widths
    /\ windowWidth = 0
    /\ resizePending = FALSE
    /\ listeners = 0
    /\ last = Call("none", NoArgument, FALSE)

\* the script is loaded on a page that has its html element
LoadFound == HtmlFound /\ Load

\* the script is loaded without an html element: window.breakPointManager is
\* built, the updateClasses of line 146 throws and line 147 is not reached
LoadNotFound ==
    /\ ~Loaded
    /\ ~HtmlFound
    /\ breakPoints' = <<>>
    /\ last' = Throw("load", NoArgument, "TypeError")
    /\ UNCHANGED <<className, clientWidth, windowWidth, resizePending, listeners>>

\* a script of the page removes the html element
RemoveHtml ==
    /\ Loaded
    /\ HtmlFound
    /\ className' = NoElement
    /\ UNCHANGED <<breakPoints, clientWidth, windowWidth, resizePending, listeners, last>>

\* addBreakPoints(bp) without an html element: the array is updated (lines
\* 72-78) and the updateClasses of line 79 throws
addBreakPointsNotFound(bp) ==
    /\ Loaded
    /\ ~HtmlFound
    /\ breakPoints' = addedBreakPoints(breakPoints, bp)
    /\ Len(breakPoints') <= MaxBreakPoints
    /\ last' = Throw("addBreakPoints", bp, "TypeError")
    /\ UNCHANGED <<className, clientWidth, windowWidth, resizePending, listeners>>

\* updateClasses() without an html element
UpdateClassesCallNotFound ==
    /\ Loaded
    /\ ~HtmlFound
    /\ last' = Throw("updateClasses", NoArgument, "TypeError")
    /\ UNCHANGED <<breakPoints, className, clientWidth, windowWidth, resizePending, listeners>>

\* a resize notification is delivered without an html element
ResizeEventNotFound ==
    /\ resizePending
    /\ ~HtmlFound
    /\ resizePending' = FALSE
    /\ last' = IF listeners > 0 THEN Throw("resize", NoArgument, "TypeError") ELSE last
    /\ UNCHANGED <<breakPoints, className, clientWidth, windowWidth, listeners>>

DetachedNext ==
    \/ LoadFound
    \/ LoadNotFound
    \/ RemoveHtml
    \/ \E bp \in Arguments : addBreakPointsNotFound(bp)
    \/ UpdateClassesCallNotFound
    \/ \E w \in Widths : ViewportResize(w)
    \/ ResizeEventNotFound

DetachedSpec == DetachedInit /\ [][DetachedNext]_vars

\* a step in which updateClasses ran: a step of a handler, but not the delivery
\* of a resize notification that no listener receives
RanUpdateClasses ==
    /\ clientWidth' = clientWidth
    /\ className' = className
    /\ ~(resizePending /\ ~resizePending' /\ listeners = 0)

\* C13: when the html element cannot be located, updateClasses (called
\* directly, from addBreakPoints, at load or from a resize notification) ends
\* with a failure of the kind ElementNotFound, and no handler ends with a fault
\* of another kind.
C13_ElementNotFoundReported ==
    [][/\ (~HtmlFound /\ RanUpdateClasses) => last'.thrown = "ElementNotFound"
       /\ last'.thrown \in {"none", "ElementNotFound"}]_vars

\* a step of updateClasses() or of the resize listener: updateClasses on an
\* unchanged breakPoints array
ReconcileStep ==
    /\ last'.op \in {"updateClasses", "resize"}
    /\ clientWidth' = clientWidth

\* C14: reconciliation has no history and no hysteresis: the set of class
\* tokens that updateClasses leaves at the current width is the one it would
\* leave had the viewport first passed through any other width and been
\* reconciled there, so runs that reach a width through different earlier
\* widths end with the same tokens.
C14_NoHysteresis ==
    [][ReconcileStep =>
          \A w \in Widths :
              Tokens(className')
                  = Tokens(updateClasses(updateClasses(className, breakPoints, w),
                                         breakPoints, clientWidth))]_vars

\* the array that the same registrations leave when they are made in the
\* opposite order
RECURSIVE Reverse(_)
Reverse(s) == IF s = <<>> THEN <<>> ELSE Reverse(Tail(s)) \o <<Head(s)>>

\* a step of a handler that runs updateClasses
UpdateStep ==
    /\ last'.op \in {"load", "addBreakPoints", "updateClasses", "resize"}
    /\ clientWidth' = clientWidth

\* C15: the insertion order of the breakpoints is not significant: from the
\* same class attribute and width, updateClasses leaves the same set of class
\* tokens when the same breakpoints were registered in the opposite order, also
\* when one breakpoint string is a prefix of another.
C15_OrderInsignificant ==
    [][UpdateStep =>
          Tokens(className')
              = Tokens(updateClasses(className, Reverse(breakPoints'), clientWidth))]_vars

IsPrefix(s, t) == Len(s) <= Len(t) /\ SubSeq(t, 1, Len(s)) = s

\* C16: the breakpoint array starts empty and only grows by appending: in
\* every step the previous array is a prefix of the new one, only
\* addBreakPoints changes it, and a value that hasBreakPoint accepts is
\* accepted ever after.
C16_GrowsByAppending ==
    [][/\ ~Loaded => breakPoints' = <<>>
       /\ IsPrefix(breakPoints, breakPoints')
       /\ last'.op # "addBreakPoints" => breakPoints' = breakPoints
       /\ \A v \in Values :
              hasBreakPoint(breakPoints, v) => hasBreakPoint(breakPoints', v)]_vars

C16_Witness ==
    /\ breakPoints = <<S5, S11>>
    /\ last = Call("resize", NoArgument, FALSE)

\* C17: the removal phase strips all occurrences of every inactive class: after
\* a call of updateClasses no token of the class attribute is a class that the
\* call had to remove, also when the attribute held that class several times
\* before the call.
C17_AllOccurrencesStripped ==
    Loaded => Range(classesToRemove(breakPoints, windowWidth)) \cap Tokens(className) = {}

(***************************************************************************)
(* Two spellings of one number: the key of a breakpoint is the string      *)
(* ''+bp (lines 56, 89), so '5' and '5.0' are two entries, and the number  *)
(* written 5.0 is the number 5, whose string is '5'.                       *)
(***************************************************************************)
S50 == <<"5", ".", "0">>

\* the value of the literal 5.0
FivePointZero == StringToNumber(S50)

DecimalValues == {Str(S5), Str(S50), Num(FivePointZero)}

DecimalInit == Init /\ className = <<>>

DecimalNext ==
    \/ BoundedLoad
    \/ \E v \in DecimalValues : BoundedAddBreakPoints(One(v))
    \/ \E v \in DecimalValues : HasBreakPointCall(v)
    \/ BoundedUpdateClassesCall
    \/ \E w \in Widths : ViewportResize(w)
    \/ BoundedResizeEvent

DecimalSpec == DecimalInit /\ [][DecimalNext]_vars

\* C18: uniqueness is decided on the string key: addBreakPoints("5.0") makes
\* "5.0" an entry and addBreakPoints("5") makes "5" an entry, whichever is there
\* already; the number 5.0 is the entry "5" for addBreakPoints and for
\* hasBreakPoint; and once "5" and then "5.0" are registered each has its own
\* relation token in the class attribute (e5 and e5.0 at width 5).
C18_StringKeyUniqueness ==
    /\ Range(breakPoints) \subseteq {S5, S50}
    /\ last.op = "addBreakPoints" =>
           IF last.arg = One(Str(S50)) THEN S50 \in Range(breakPoints)
           ELSE S5 \in Range(breakPoints)
    /\ hasBreakPoint(breakPoints, Num(FivePointZero)) <=> S5 \in Range(breakPoints)
    /\ hasBreakPoint(breakPoints, Str(S50)) <=> S50 \in Range(breakPoints)
    /\ last.op = "hasBreakPoint" =>
           (last.ret <=> ToStr(last.arg.items[1]) \in Range(breakPoints))
    /\ breakPoints = <<S5, S50>> =>
           /\ PresentRelationTokens(className, S5) = {RelationOf(windowWidth, 5) \o S5}
           /\ PresentRelationTokens(className, S50) = {RelationOf(windowWidth, 5) \o S50}

C18_Witness ==
    /\ breakPoints = <<S5, S50>>
    /\ last = Call("addBreakPoints", One(Num(FivePointZero)), FALSE)
    /\ className = <<" ", "e", "5", " ", "e", "5", ".", "0">>

\* C19: updateClasses is idempotent at a fixed state: once a handler has
\* reconciled the class attribute at the current width, another updateClasses
\* with the same breakpoints and the same width leaves the class attribute
\* string as it is.
C19_Idempotent ==
    (Loaded /\ windowWidth = clientWidth)
        => updateClasses(className, breakPoints, clientWidth) = className

====
